---- MODULE Spec2Model ----
(***************************************************************************)
(* GitHubClient (src/github_connector/client.py): the retrying request     *)
(* executor _make_request, its header construction and its error taxonomy  *)
(* (src/github_connector/custom_exceptions.py).                            *)
(*                                                                         *)
(* Text is a sequence of string pieces (a Python str), so that formatting  *)
(* is concatenation and "x in s" is a sub-sequence test.  An Optional      *)
(* value is the empty set (None) or a singleton.  A dict is a function     *)
(* from its keys.                                                          *)
(***************************************************************************)
EXTENDS Integers, Sequences, FiniteSets, TLC

\* ------------------------------------------------------------------ bounds
\* Largest delay-seconds value a Retry-After header of the model carries.
MaxRetryAfter == 12

\* ------------------------------------------------- constants of the client
MAX_RETRIES == 3
INITIAL_BACKOFF == 1
BASE_URL == <<"https://api.github.com">>

\* ------------------------------------------------------- Python primitives
None == {}
Some(x) == {x}
The(o) == CHOOSE x \in o : TRUE

\* bool(s) of a str: the empty string is falsy.
TruthyStr(s) == Len(s) > 0
\* bool(o) of an Optional[str]: None and "" are falsy.
TruthyOpt(o) == o # None /\ TruthyStr(The(o))
\* a or b, for Optional[str] operands.
PyOr(a, b) == IF TruthyOpt(a) THEN a ELSE b

DigitChars == <<"0", "1", "2", "3", "4", "5", "6", "7", "8", "9">>
IsDigit(c) == \E d \in 1..10 : DigitChars[d] = c
DigitVal(c) == (CHOOSE d \in 1..10 : DigitChars[d] = c) - 1

\* str(n) of a non-negative int: its decimal digits.
RECURSIVE IntStr(_)
IntStr(n) ==
    IF n < 10 THEN <<DigitChars[n + 1]>>
    ELSE IntStr(n \div 10) \o <<DigitChars[(n % 10) + 1]>>

RECURSIVE DigitsVal(_)
DigitsVal(s) ==
    IF Len(s) = 0 THEN 0
    ELSE 10 * DigitsVal(SubSeq(s, 1, Len(s) - 1)) + DigitVal(s[Len(s)])

\* int(s) of a str of single characters: the value of a non-empty run of
\* decimal digits; anything else (an HTTP-date, say) is a ValueError.
ParseInt(s) ==
    IF Len(s) > 0 /\ \A i \in 1..Len(s) : IsDigit(s[i])
    THEN [ok |-> TRUE, val |-> DigitsVal(s)]
    ELSE [ok |-> FALSE, val |-> 0]

\* 2 ** n
RECURSIVE Pow2(_)
Pow2(n) == IF n = 0 THEN 1 ELSE 2 * Pow2(n - 1)

\* ------------------------------------------------------- error taxonomy
\* custom_exceptions.py.  An exception is a record of its class and its
\* attributes; str(e) is its message.

\* GitHubAPIError(message, status_code=None)
GitHubAPIError(message, status_code) ==
    [type |-> "GitHubAPIError", message |-> message, status_code |-> status_code]

\* ResourceNotFound(resource)
ResourceNotFound(resource) ==
    [type |-> "ResourceNotFound",
     message |-> <<"Resource not found: ">> \o resource,
     status_code |-> Some(404)]

\* The message of RateLimitExceeded: the suffix is added when retry_after is
\* truthy, that is, not 0.
RateLimitMessage(retry_after) ==
    <<"GitHub API rate limit exceeded">> \o
    (IF retry_after # 0
     THEN <<". Retry after ">> \o IntStr(retry_after) \o <<" seconds">>
     ELSE <<>>)

\* RateLimitExceeded(retry_after)
RateLimitExceeded(retry_after) ==
    [type |-> "RateLimitExceeded",
     message |-> RateLimitMessage(retry_after),
     status_code |-> Some(429),
     retry_after |-> retry_after]

\* AuthenticationError()
AuthenticationError ==
    [type |-> "AuthenticationError",
     message |-> <<"Authentication failed. Check your GITHUB_TOKEN">>,
     status_code |-> Some(401)]

\* NetworkError(original_error)
NetworkError(original_error) ==
    [type |-> "NetworkError",
     message |-> <<"Network error: ">> \o original_error.desc,
     status_code |-> None,
     original_error |-> original_error]

\* The classes of the taxonomy: the base kind and its four specialisations.
Taxonomy ==
    {"GitHubAPIError", "ResourceNotFound", "RateLimitExceeded",
     "AuthenticationError", "NetworkError"}

\* int(...) of a header value that is no integer: a built-in ValueError,
\* which no except clause of _make_request names.
ValueError(text) ==
    [type |-> "ValueError",
     message |-> <<"invalid literal for int() with base 10: '">> \o text \o <<"'">>]

\* ------------------------------------------------------------ transport
\* What requests.request(...) can answer: a response (status_code, headers,
\* decoded JSON body) or a raised requests exception (class, str(e)).

EmptyDict == [k \in {} |-> <<>>]
\* d.get(key) is defined iff key \in DOMAIN d.
Dict1(key, value) == [k \in {key} |-> value]

\* An HTTP-date, the other form RFC 9110 allows for Retry-After.
HttpDate ==
    <<"W", "e", "d", ",", " ", "2", "1", " ", "O", "c", "t", " ",
      "2", "0", "1", "5", " ", "0", "7", ":", "2", "8", ":", "0", "0",
      " ", "G", "M", "T">>

\* The values of a Retry-After header: delay-seconds or an HTTP-date.
RetryAfterValues == {IntStr(0), IntStr(MaxRetryAfter), HttpDate}

RateLimitHeaders ==
    {EmptyDict} \cup {Dict1("Retry-After", v) : v \in RetryAfterValues}

Payloads == {[full_name |-> "octocat/Hello-World"], [tag_name |-> "v1.0.0"]}
ErrorBody == [message |-> "error"]

RateLimitStatuses == {429, 403}
\* Statuses raise_for_status() lets pass: below 400 (2xx and 3xx here).
PassStatuses == {200, 201, 300, 304}
\* Other 4xx/5xx statuses.
ErrorStatuses == {400, 401, 404, 500, 599}

\* Headers and body are enumerated where _make_request reads them: the
\* Retry-After header of a 429/403, the body of a response it returns.
Responses ==
    {[kind |-> "response", status_code |-> s, headers |-> h, body |-> ErrorBody] :
        s \in RateLimitStatuses, h \in RateLimitHeaders}
    \cup
    {[kind |-> "response", status_code |-> s, headers |-> EmptyDict, body |-> b] :
        s \in PassStatuses, b \in Payloads}
    \cup
    {[kind |-> "response", status_code |-> s, headers |-> EmptyDict, body |-> ErrorBody] :
        s \in ErrorStatuses}

\* requests.exceptions: ConnectionError and Timeout are the connectivity
\* failures; TooManyRedirects is a RequestException that is neither.
Failures ==
    {[kind |-> "exception", class |-> "ConnectionError", desc |-> <<"Connection refused">>],
     [kind |-> "exception", class |-> "Timeout", desc |-> <<"Request timed out">>],
     [kind |-> "exception", class |-> "TooManyRedirects", desc |-> <<"Exceeded 30 redirects.">>]}

TransportOutcomes == Responses \cup Failures

Methods == {"GET", "HEAD"}
Endpoints ==
    {<<"/repos/", "octocat", "/", "Hello-World">>,
     <<"/repos/", "python", "/", "cpython", "/releases/latest">>}

\* Constructor arguments and values of the GITHUB_TOKEN environment variable.
TokenArgs == {None, Some(<<>>), Some(<<"arg_token">>)}
EnvTokens == {None, Some(<<>>), Some(<<"env_token">>)}

\* ----------------------------------------------------------- the client
\* __init__: self.token = token or os.getenv("GITHUB_TOKEN")
InitToken(arg, env) == PyOr(arg, env)

\* _get_headers() with "if self.token is not None" for "if self.token".
GetHeadersTokenNotNone(tok) ==
    LET base == [k \in {"Accept", "X-GitHub-Api-Version"} |->
                    IF k = "Accept" THEN <<"application/vnd.github+json">>
                    ELSE <<"2022-11-28">>]
    IN  IF tok # None
        THEN [k \in DOMAIN base \cup {"Authorization"} |->
                 IF k = "Authorization" THEN <<"Bearer ">> \o The(tok) ELSE base[k]]
        ELSE base

\* _get_headers()
GetHeaders(tok) ==
    LET base == [k \in {"Accept", "X-GitHub-Api-Version"} |->
                    IF k = "Accept" THEN <<"application/vnd.github+json">>
                    ELSE <<"2022-11-28">>]
    IN  IF TruthyOpt(tok)
        THEN [k \in DOMAIN base \cup {"Authorization"} |->
                 IF k = "Authorization" THEN <<"Bearer ">> \o The(tok) ELSE base[k]]
        ELSE base

\* f"{self.BASE_URL}{endpoint}"
Url(ep) == BASE_URL \o ep

\* The backoff with 2 * attempt for 2 ** attempt.
BackoffLinear(i) == INITIAL_BACKOFF * (2 * i)

\* self.INITIAL_BACKOFF * (2 ** attempt)
Backoff(i) == INITIAL_BACKOFF * Pow2(i)

\* The retry test with MAX_RETRIES for MAX_RETRIES - 1.
CanRetryOffByOne(i) == i < MAX_RETRIES

\* attempt < self.MAX_RETRIES - 1
CanRetry(i) == i < MAX_RETRIES - 1

\* The retry delay without the read of the Retry-After header.
RetryAfterIgnoresHeader(response, i) == [ok |-> TRUE, val |-> Backoff(i)]

\* int(response.headers.get('Retry-After', self.INITIAL_BACKOFF * (2 ** attempt)))
RetryAfter(response, i) ==
    IF "Retry-After" \in DOMAIN response.headers
    THEN ParseInt(response.headers["Retry-After"])
    ELSE [ok |-> TRUE, val |-> Backoff(i)]

\* response.raise_for_status() raises HTTPError for 4xx and 5xx only.
RaisesForStatus(status) == 400 <= status /\ status < 600

\* str(HTTPError) as raise_for_status() words it.
HTTPErrorText(status, url) ==
    IntStr(status)
    \o <<IF status < 500 THEN " Client Error" ELSE " Server Error">>
    \o <<" for url: ">> \o url

\* What one iteration of the retry loop does with the transport's answer o.
Return(payload, lines) == [kind |-> "return", payload |-> payload, log |-> lines]
Raise(exc, lines) == [kind |-> "raise", exc |-> exc, log |-> lines]
Sleep(secs, lines) == [kind |-> "sleep", secs |-> secs, log |-> lines]

\* except (ConnectionError, Timeout) / except RequestException
OnException(i, e) ==
    IF e.class \in {"ConnectionError", "Timeout"}
    THEN IF CanRetry(i)
         THEN Sleep(Backoff(i), <<"warning">>)
         ELSE Raise(NetworkError(e), <<"error">>)
    ELSE Raise(GitHubAPIError(<<"Request failed: ">> \o e.desc, None), <<"error">>)

\* if response.status_code in (429, 403): ...
OnRateLimit(i, response) ==
    LET ra == RetryAfter(response, i)
    IN  IF ~ra.ok
        THEN Raise(ValueError(response.headers["Retry-After"]), <<>>)
        ELSE IF CanRetry(i)
             THEN Sleep(ra.val, <<"warning">>)
             ELSE Raise(RateLimitExceeded(ra.val), <<"error">>)

\* The try block without the 404 branch.
OnResponseNo404(i, ep, response) ==
    LET status == response.status_code
    IN  IF status = 401 THEN Raise(AuthenticationError, <<"error">>)
        ELSE IF status \in {429, 403} THEN OnRateLimit(i, response)
        ELSE IF RaisesForStatus(status)
             THEN Raise(GitHubAPIError(<<"Request failed: ">>
                                        \o HTTPErrorText(status, Url(ep)), None),
                        <<"error">>)
        ELSE Return(response.body, <<"info">>)

\* The try block with 401 counted among the rate-limit statuses.
OnResponse401RateLimited(i, ep, response) ==
    LET status == response.status_code
    IN  IF status = 404 THEN Raise(ResourceNotFound(ep), <<"error">>)
        ELSE IF status \in {429, 403, 401} THEN OnRateLimit(i, response)
        ELSE IF RaisesForStatus(status)
             THEN Raise(GitHubAPIError(<<"Request failed: ">>
                                        \o HTTPErrorText(status, Url(ep)), None),
                        <<"error">>)
        ELSE Return(response.body, <<"info">>)

\* The body of the try block, for a response.
OnResponse(i, ep, response) ==
    LET status == response.status_code
    IN  IF status = 404 THEN Raise(ResourceNotFound(ep), <<"error">>)
        ELSE IF status = 401 THEN Raise(AuthenticationError, <<"error">>)
        ELSE IF status \in {429, 403} THEN OnRateLimit(i, response)
        ELSE IF RaisesForStatus(status)
             THEN Raise(GitHubAPIError(<<"Request failed: ">>
                                        \o HTTPErrorText(status, Url(ep)), None),
                        <<"error">>)
        ELSE Return(response.body, <<"info">>)

Iteration(i, ep, o) ==
    IF o.kind = "exception" THEN OnException(i, o) ELSE OnResponse(i, ep, o)

\* ---------------------------------------------------------------- state
Threads == {1, 2}
\* main.py runs every call on the one main thread.
MainThread == 1

VARIABLES
    tokenArg,   \* the token argument GitHubClient(...) was built with
    environ,    \* os.getenv("GITHUB_TOKEN") at construction
    token,      \* self.token
    pc,         \* per thread: "idle", "request", "sleep" or "done"
    method,     \* per thread: the method argument of the running call
    endpoint,   \* per thread: the endpoint argument of the running call
    headers,    \* per thread: the local headers dict of the running call
    attempt,    \* per thread: the loop variable of the running call
    sent,       \* per thread: the requests.request calls of the call so far
    outcomes,   \* per thread: what the transport answered to each of them
    sleeps,     \* per thread: the time.sleep arguments of the call so far
    result,     \* per thread: None, or how the call ended (return or raise)
    log,        \* per thread: the levels of the log lines of the call so far
    prior,      \* per thread: how many requests its previous call issued
    priorPayload, \* per thread: the payload its previous call returned, if any
    via         \* per thread: the operation its caller invoked, with arguments

vars == <<tokenArg, environ, token, pc, method, endpoint, headers, attempt,
          sent, outcomes, sleeps, result, log, prior, priorPayload, via>>

clientVars == <<tokenArg, environ, token>>

\* The caller invoked _make_request itself, as the tests do.
Direct == [op |-> "_make_request", owner |-> "", repo |-> ""]

\* GitHubClient(token=arg) under each environment; no call is running.
Init ==
    /\ tokenArg \in TokenArgs
    /\ environ \in EnvTokens
    /\ token = InitToken(tokenArg, environ)
    /\ pc = [t \in Threads |-> "idle"]
    /\ method = [t \in Threads |-> ""]
    /\ endpoint = [t \in Threads |-> <<>>]
    /\ headers = [t \in Threads |-> EmptyDict]
    /\ attempt = [t \in Threads |-> 0]
    /\ sent = [t \in Threads |-> <<>>]
    /\ outcomes = [t \in Threads |-> <<>>]
    /\ sleeps = [t \in Threads |-> <<>>]
    /\ result = [t \in Threads |-> None]
    /\ log = [t \in Threads |-> <<>>]
    /\ prior = [t \in Threads |-> 0]
    /\ priorPayload = [t \in Threads |-> None]
    /\ via = [t \in Threads |-> Direct]

\* _make_request with the attempt index kept on the client across calls.
MakeRequestKeepsAttempt(t, m, ep) ==
    /\ pc[t] \in {"idle", "done"}
    /\ method' = [method EXCEPT ![t] = m]
    /\ endpoint' = [endpoint EXCEPT ![t] = ep]
    /\ headers' = [headers EXCEPT ![t] = GetHeaders(token)]
    /\ sent' = [sent EXCEPT ![t] = <<>>]
    /\ outcomes' = [outcomes EXCEPT ![t] = <<>>]
    /\ sleeps' = [sleeps EXCEPT ![t] = <<>>]
    /\ result' = [result EXCEPT ![t] = None]
    /\ log' = [log EXCEPT ![t] = <<"info">>]
    /\ prior' = [prior EXCEPT ![t] = Len(sent[t])]
    /\ priorPayload' = [priorPayload EXCEPT ![t] =
                            IF result[t] # None /\ The(result[t]).kind = "return"
                            THEN Some(The(result[t]).payload) ELSE None]
    /\ pc' = [pc EXCEPT ![t] = "request"]
    /\ UNCHANGED <<clientVars, attempt>>

\* _make_request(method, endpoint) up to the first iteration of the loop:
\* builds the headers, logs, and binds attempt to the first index of
\* range(MAX_RETRIES).
MakeRequest(t, m, ep) ==
    /\ pc[t] \in {"idle", "done"}
    /\ method' = [method EXCEPT ![t] = m]
    /\ endpoint' = [endpoint EXCEPT ![t] = ep]
    /\ headers' = [headers EXCEPT ![t] = GetHeaders(token)]
    /\ attempt' = [attempt EXCEPT ![t] = 0]
    /\ sent' = [sent EXCEPT ![t] = <<>>]
    /\ outcomes' = [outcomes EXCEPT ![t] = <<>>]
    /\ sleeps' = [sleeps EXCEPT ![t] = <<>>]
    /\ result' = [result EXCEPT ![t] = None]
    /\ log' = [log EXCEPT ![t] = <<"info">>]
    /\ prior' = [prior EXCEPT ![t] = Len(sent[t])]
    /\ priorPayload' = [priorPayload EXCEPT ![t] =
                            IF result[t] # None /\ The(result[t]).kind = "return"
                            THEN Some(The(result[t]).payload) ELSE None]
    /\ pc' = [pc EXCEPT ![t] = "request"]
    /\ UNCHANGED clientVars

\* One iteration of the loop: requests.request(method, url, headers=headers,
\* timeout=10) answers o, and the iteration returns, raises or goes to sleep.
Request(t, o) ==
    /\ pc[t] = "request"
    /\ LET eff == Iteration(attempt[t], endpoint[t], o)
       IN  /\ sent' = [sent EXCEPT ![t] =
                          Append(@, [method |-> method[t], url |-> Url(endpoint[t]),
                                     headers |-> headers[t], timeout |-> 10])]
           /\ outcomes' = [outcomes EXCEPT ![t] = Append(@, o)]
           /\ log' = [log EXCEPT ![t] = @ \o eff.log]
           /\ IF eff.kind = "sleep"
              THEN /\ sleeps' = [sleeps EXCEPT ![t] = Append(@, eff.secs)]
                   /\ pc' = [pc EXCEPT ![t] = "sleep"]
                   /\ UNCHANGED result
              ELSE /\ result' = [result EXCEPT ![t] =
                                    Some(IF eff.kind = "return"
                                         THEN [kind |-> "return", payload |-> eff.payload]
                                         ELSE [kind |-> "raise", exc |-> eff.exc])]
                   /\ pc' = [pc EXCEPT ![t] = "done"]
                   /\ UNCHANGED sleeps
    /\ UNCHANGED <<clientVars, method, endpoint, headers, attempt, prior, priorPayload, via>>

\* Continue with the attempt index kept on the client (self.attempt), where
\* every thread reads and writes the same counter.
ContinueSharedAttempt(t) ==
    /\ pc[t] = "sleep"
    /\ IF attempt[t] + 1 < MAX_RETRIES
       THEN /\ attempt' = [u \in Threads |-> attempt[t] + 1]
            /\ pc' = [pc EXCEPT ![t] = "request"]
            /\ UNCHANGED <<result, log>>
       ELSE /\ result' = [result EXCEPT ![t] =
                             Some([kind |-> "raise",
                                   exc |-> GitHubAPIError(<<"Max retries exceeded">>, None)])]
            /\ pc' = [pc EXCEPT ![t] = "done"]
            /\ UNCHANGED <<attempt, log>>
    /\ UNCHANGED <<clientVars, method, endpoint, headers, sent, outcomes, sleeps, prior,
                   priorPayload, via>>

\* time.sleep returns and the iteration continues: the loop takes the next
\* index of range(MAX_RETRIES), or ends and the raise after it runs.
Continue(t) ==
    /\ pc[t] = "sleep"
    /\ IF attempt[t] + 1 < MAX_RETRIES
       THEN /\ attempt' = [attempt EXCEPT ![t] = @ + 1]
            /\ pc' = [pc EXCEPT ![t] = "request"]
            /\ UNCHANGED <<result, log>>
       ELSE /\ result' = [result EXCEPT ![t] =
                             Some([kind |-> "raise",
                                   exc |-> GitHubAPIError(<<"Max retries exceeded">>, None)])]
            /\ pc' = [pc EXCEPT ![t] = "done"]
            /\ UNCHANGED <<attempt, log>>
    /\ UNCHANGED <<clientVars, method, endpoint, headers, sent, outcomes, sleeps, prior,
                   priorPayload, via>>

\* A caller invokes _make_request(m, ep) itself.
DirectCall(t, m, ep) ==
    /\ MakeRequest(t, m, ep)
    /\ via' = [via EXCEPT ![t] = Direct]

\* Owner and repository names the public methods are called with.
Repos == {<<"octocat", "Hello-World">>, <<"python", "cpython">>}

\* get_repo_details with owner and repo swapped in the path.
RepoDetailsEndpointSwapped(owner, repo) == <<"/repos/", repo, "/", owner>>

\* f"/repos/{owner}/{repo}"
RepoDetailsEndpoint(owner, repo) == <<"/repos/", owner, "/", repo>>

\* f"/repos/{owner}/{repo}/releases/latest"
LatestReleaseEndpoint(owner, repo) == <<"/repos/", owner, "/", repo, "/releases/latest">>

\* get_repo_details(owner, repo): return self._make_request("GET", endpoint)
GetRepoDetails(t, owner, repo) ==
    /\ MakeRequest(t, "GET", RepoDetailsEndpoint(owner, repo))
    /\ via' = [via EXCEPT ![t] =
                  [op |-> "get_repo_details", owner |-> owner, repo |-> repo]]

\* get_latest_release(owner, repo): return self._make_request("GET", endpoint)
GetLatestRelease(t, owner, repo) ==
    /\ MakeRequest(t, "GET", LatestReleaseEndpoint(owner, repo))
    /\ via' = [via EXCEPT ![t] =
                  [op |-> "get_latest_release", owner |-> owner, repo |-> repo]]

\* The calls of the tests: _make_request itself, on one thread.
Next ==
    \E t \in {MainThread} :
        \/ \E m \in Methods, ep \in Endpoints : DirectCall(t, m, ep)
        \/ \E o \in TransportOutcomes : Request(t, o)
        \/ Continue(t)

Spec == Init /\ [][Next]_vars

\* The calls of main.py: the two public methods, on one thread.
NextPublic ==
    \E t \in {MainThread} :
        \/ \E r \in Repos : GetRepoDetails(t, r[1], r[2])
        \/ \E r \in Repos : GetLatestRelease(t, r[1], r[2])
        \/ \E o \in TransportOutcomes : Request(t, o)
        \/ Continue(t)

SpecPublic == Init /\ [][NextPublic]_vars

\* Two threads of a host application call _make_request on the one client,
\* their steps interleaved in every order.  The transport answers from a
\* few outcomes of each kind: rate-limited without and with Retry-After,
\* success, not found, connection failure.
ConcOutcomes ==
    {o \in Responses :
        \/ o.status_code = 429 /\ o.headers \in {EmptyDict, Dict1("Retry-After", IntStr(MaxRetryAfter))}
        \/ o.status_code = 200 /\ o.body = [full_name |-> "octocat/Hello-World"]
        \/ o.status_code = 404}
    \cup {f \in Failures : f.class = "ConnectionError"}

\* A client built with an explicit token, or with none at all.
InitConc == Init /\ environ = None /\ tokenArg # Some(<<>>)

\* Each thread asks for its own endpoint.
ConcEndpoint(t) ==
    IF t = MainThread
    THEN RepoDetailsEndpoint("octocat", "Hello-World")
    ELSE LatestReleaseEndpoint("python", "cpython")

NextConc ==
    \E t \in Threads :
        \/ DirectCall(t, "GET", ConcEndpoint(t))
        \/ \E o \in ConcOutcomes : Request(t, o)
        \/ Continue(t)

SpecConc == InitConc /\ [][NextConc]_vars

\* ------------------------------------------------- vocabulary of the claims
Last(seq) == seq[Len(seq)]
\* needle in hay, for str.
Contains(hay, needle) ==
    \E i \in 1..(Len(hay) + 1) :
        /\ i + Len(needle) - 1 <= Len(hay)
        /\ SubSeq(hay, i, i + Len(needle) - 1) = needle
IsResponse(o) == o.kind = "response"
HasStatus(o, codes) == IsResponse(o) /\ o.status_code \in codes
IsRateLimited(o) == HasStatus(o, {429, 403})
IsConnectivity(o) == o.kind = "exception" /\ o.class \in {"ConnectionError", "Timeout"}
IsSuccess(o) == IsResponse(o) /\ 200 <= o.status_code /\ o.status_code <= 299
Raised(t) == result[t] # None /\ The(result[t]).kind = "raise"
Returned(t) == result[t] # None /\ The(result[t]).kind = "return"
Exc(t) == The(result[t]).exc
\* The call of t ended on its latest request, without sleeping after it.
EndedAtOnce(t) ==
    /\ pc[t] = "done"
    /\ Len(sent[t]) = Len(outcomes[t])
    /\ Len(sleeps[t]) = Len(outcomes[t]) - 1

\* ----------------------------------------------------------------- C1
\* C1: a logical call issues at least 1 and at most MAX_RETRIES requests,
\* whatever the transport answers, and every call starts at attempt index 0
\* whatever the previous call of the thread did: a request is always issued
\* at the index equal to the number of requests the call has issued so far.
C1_AttemptBudget ==
    \A t \in Threads :
        /\ Len(sent[t]) <= MAX_RETRIES
        /\ pc[t] = "done" => Len(sent[t]) >= 1
        /\ pc[t] = "request" => attempt[t] = Len(sent[t])
        /\ pc[t] = "sleep" => attempt[t] = Len(sent[t]) - 1

\* A call that follows a call of three requests is about to issue its first
\* request, at index 0.
C1_Witness ==
    /\ prior[MainThread] = MAX_RETRIES
    /\ pc[MainThread] = "request"
    /\ sent[MainThread] = <<>>
    /\ attempt[MainThread] = 0

\* ----------------------------------------------------------------- C2
\* C2: a 404 response, at whatever attempt index it arrives, ends the call
\* at once (no sleep, no further request) with a ResourceNotFound of status
\* code 404 whose message contains the requested path; a 404 on the first
\* request therefore yields exactly one attempt.
C2_NotFound ==
    \A t \in Threads :
        \A i \in 1..Len(outcomes[t]) :
            HasStatus(outcomes[t][i], {404}) =>
                /\ i = Len(outcomes[t])
                /\ EndedAtOnce(t)
                /\ Len(sent[t]) = i
                /\ Raised(t)
                /\ Exc(t).type = "ResourceNotFound"
                /\ Exc(t).status_code = Some(404)
                /\ Contains(Exc(t).message, endpoint[t])

\* A 404 on the third request, after two retried failures.
C2_Witness ==
    /\ pc[MainThread] = "done"
    /\ Len(outcomes[MainThread]) = MAX_RETRIES
    /\ HasStatus(Last(outcomes[MainThread]), {404})
    /\ Len(sleeps[MainThread]) = 2

\* ----------------------------------------------------------------- C3
\* C3: a 401 response, at whatever attempt index it arrives, ends the call
\* at once (no sleep, no further request) with an AuthenticationError of
\* status code 401 and the fixed check-your-credentials message; a 401 on
\* the first request therefore yields exactly one attempt.
C3_Unauthorized ==
    \A t \in Threads :
        \A i \in 1..Len(outcomes[t]) :
            HasStatus(outcomes[t][i], {401}) =>
                /\ i = Len(outcomes[t])
                /\ EndedAtOnce(t)
                /\ Len(sent[t]) = i
                /\ Raised(t)
                /\ Exc(t).type = "AuthenticationError"
                /\ Exc(t).status_code = Some(401)
                /\ Exc(t).message = <<"Authentication failed. Check your GITHUB_TOKEN">>

\* A 401 on the first request.
C3_Witness ==
    /\ pc[MainThread] = "done"
    /\ Len(outcomes[MainThread]) = 1
    /\ HasStatus(outcomes[MainThread][1], {401})
    /\ Raised(MainThread)

\* ----------------------------------------------------------------- C4
IsRetryable(o) == IsRateLimited(o) \/ IsConnectivity(o)
AllOutcomes(t, P(_)) == \A i \in 1..Len(outcomes[t]) : P(outcomes[t][i])
IsConstant(seq) == \A i \in 1..Len(seq) : seq[i] = seq[1]
HasRetryAfter(o) == "Retry-After" \in DOMAIN o.headers

\* C4: a call that got the same rate-limited response (429 or 403) on every
\* attempt made exactly MAX_RETRIES requests and raised RateLimitExceeded
\* with status code 429, carrying as retry_after the Retry-After value of
\* the last response if it has one, else INITIAL_BACKOFF * 2^(MAX_RETRIES-1),
\* which is 4.
C4_ConstantRateLimit ==
    \A t \in Threads :
        (/\ pc[t] = "done"
         /\ IsConstant(outcomes[t])
         /\ AllOutcomes(t, IsRateLimited)) =>
            /\ Len(sent[t]) = MAX_RETRIES
            /\ Raised(t)
            /\ Exc(t).type = "RateLimitExceeded"
            /\ Exc(t).status_code = Some(429)
            /\ IF HasRetryAfter(Last(outcomes[t]))
               THEN IntStr(Exc(t).retry_after) = Last(outcomes[t]).headers["Retry-After"]
               ELSE /\ Exc(t).retry_after = INITIAL_BACKOFF * 2^(MAX_RETRIES - 1)
                    /\ Exc(t).retry_after = 4

\* The Retry-After header of o, where there is one, is an integer.
IntegerRetryAfter(o) ==
    (IsRateLimited(o) /\ HasRetryAfter(o)) => ParseInt(o.headers["Retry-After"]).ok

\* How far the statement of C4 holds: for responses whose Retry-After header
\* is absent or an integer.
RateLimitBudget_IntegerRetryAfter ==
    \A t \in Threads :
        (/\ pc[t] = "done"
         /\ AllOutcomes(t, IsRateLimited)
         /\ AllOutcomes(t, IntegerRetryAfter)) =>
            /\ Len(sent[t]) = MAX_RETRIES
            /\ Raised(t)
            /\ Exc(t).type = "RateLimitExceeded"
            /\ Exc(t).status_code = Some(429)
            /\ IF HasRetryAfter(Last(outcomes[t]))
               THEN IntStr(Exc(t).retry_after) = Last(outcomes[t]).headers["Retry-After"]
               ELSE Exc(t).retry_after = 4

\* ----------------------------------------------------------------- C5
\* C5: after k < MAX_RETRIES retryable outcomes (429/403 responses or
\* connectivity failures) the call goes on to request k+1, and when that
\* request is answered 2xx the call has made exactly k+1 requests and
\* returns the payload of that response.
C5_RetryThenSuccess ==
    \A t \in Threads :
        LET n == Len(outcomes[t])
        IN  /\ (n >= 1 /\ n < MAX_RETRIES /\ AllOutcomes(t, IsRetryable)) =>
                   /\ pc[t] \in {"sleep", "request"}
                   /\ Len(sent[t]) = n
            /\ (/\ n >= 1
                /\ IsSuccess(outcomes[t][n])
                /\ \A i \in 1..(n - 1) : IsRetryable(outcomes[t][i])) =>
                   /\ pc[t] = "done"
                   /\ Len(sent[t]) = n
                   /\ result[t] = Some([kind |-> "return", payload |-> outcomes[t][n].body])

\* How far the statement of C5 holds: for outcomes whose Retry-After header
\* is absent or an integer.
RetryThenSuccess_IntegerRetryAfter ==
    \A t \in Threads :
        LET n == Len(outcomes[t])
        IN  AllOutcomes(t, IntegerRetryAfter) =>
            /\ (n >= 1 /\ n < MAX_RETRIES /\ AllOutcomes(t, IsRetryable)) =>
                   /\ pc[t] \in {"sleep", "request"}
                   /\ Len(sent[t]) = n
            /\ (/\ n >= 1
                /\ IsSuccess(outcomes[t][n])
                /\ \A i \in 1..(n - 1) : IsRetryable(outcomes[t][i])) =>
                   /\ pc[t] = "done"
                   /\ Len(sent[t]) = n
                   /\ result[t] = Some([kind |-> "return", payload |-> outcomes[t][n].body])

\* ----------------------------------------------------------------- C6
\* C6: a call that met a connectivity failure (connection error or timeout)
\* on every attempt makes exactly 3 requests, sleeping 1 and then 2 between
\* them and not after the last, and raises a NetworkError without status
\* code whose message contains the description of the last failure.
C6_ConstantConnectivityFailure ==
    \A t \in Threads :
        LET n == Len(outcomes[t])
        IN  (n >= 1 /\ AllOutcomes(t, IsConnectivity)) =>
                /\ Len(sleeps[t]) <= 2
                /\ \A i \in 1..Len(sleeps[t]) : sleeps[t][i] = <<1, 2>>[i]
                /\ n < 3 => pc[t] \in {"sleep", "request"}
                /\ n = 3 =>
                    /\ pc[t] = "done"
                    /\ Len(sent[t]) = 3
                    /\ sleeps[t] = <<1, 2>>
                    /\ Raised(t)
                    /\ Exc(t).type = "NetworkError"
                    /\ Exc(t).status_code = None
                    /\ Contains(Exc(t).message, Last(outcomes[t]).desc)

\* Three connectivity failures, the last one different from the first.
C6_Witness ==
    /\ pc[MainThread] = "done"
    /\ Len(outcomes[MainThread]) = 3
    /\ AllOutcomes(MainThread, IsConnectivity)
    /\ outcomes[MainThread][3] # outcomes[MainThread][1]
    /\ Raised(MainThread)

\* ----------------------------------------------------------------- C7
\* C7: the i-th sleep of a call follows its i-th request (attempt index
\* i - 1) and lasts: the integer value of the Retry-After header when that
\* request was answered 429/403 with the header; 1 * 2^(i-1) when it was
\* answered 429/403 without it; 1 * 2^(i-1) when it failed to connect.
C7_SleepDuration ==
    \A t \in Threads :
        /\ Len(sleeps[t]) <= Len(outcomes[t])
        /\ \A i \in 1..Len(sleeps[t]) :
               LET o == outcomes[t][i]
               IN  IF IsRateLimited(o) /\ HasRetryAfter(o)
                   THEN IntStr(sleeps[t][i]) = o.headers["Retry-After"]
                   ELSE /\ IsRateLimited(o) \/ IsConnectivity(o)
                        /\ sleeps[t][i] = 1 * 2^(i - 1)

\* A second sleep of the header's value, which is not the fallback 2, after
\* a first sleep that followed a connectivity failure.
C7_Witness ==
    /\ Len(sleeps[MainThread]) = 2
    /\ IsConnectivity(outcomes[MainThread][1])
    /\ IsRateLimited(outcomes[MainThread][2])
    /\ HasRetryAfter(outcomes[MainThread][2])
    /\ sleeps[MainThread] = <<1, MaxRetryAfter>>

\* ----------------------------------------------------------------- C8
\* C8: every response is classified: one with a 2xx status ends the call by
\* returning its parsed body, and one whose status is neither 2xx nor 404,
\* 401, 429 or 403 (1xx, 3xx and the other 4xx/5xx) ends the call at once,
\* without retry or sleep, with a generic GitHubAPIError whose message
\* carries the failure description.
C8_StatusClassification ==
    \A t \in Threads :
        \A i \in 1..Len(outcomes[t]) :
            LET o == outcomes[t][i]
            IN  /\ IsSuccess(o) =>
                    /\ i = Len(outcomes[t])
                    /\ EndedAtOnce(t)
                    /\ result[t] = Some([kind |-> "return", payload |-> o.body])
                /\ (IsResponse(o) /\ ~IsSuccess(o)
                    /\ o.status_code \notin {404, 401, 429, 403}) =>
                    /\ i = Len(outcomes[t])
                    /\ EndedAtOnce(t)
                    /\ Raised(t)
                    /\ Exc(t).type = "GitHubAPIError"
                    /\ Contains(Exc(t).message, <<"Request failed: ">>)
                    /\ Contains(Exc(t).message, IntStr(o.status_code))

\* How far the statement of C8 holds: the generic error is raised for the
\* statuses raise_for_status() rejects, and every other unclassified status
\* ends the call by returning the body.
StatusClassification_RaiseForStatus ==
    \A t \in Threads :
        \A i \in 1..Len(outcomes[t]) :
            LET o == outcomes[t][i]
            IN  (IsResponse(o) /\ o.status_code \notin {404, 401, 429, 403}) =>
                    /\ i = Len(outcomes[t])
                    /\ EndedAtOnce(t)
                    /\ IF 400 <= o.status_code /\ o.status_code <= 599
                       THEN /\ Raised(t)
                            /\ Exc(t).type = "GitHubAPIError"
                            /\ Contains(Exc(t).message, IntStr(o.status_code))
                       ELSE result[t] = Some([kind |-> "return", payload |-> o.body])

\* ----------------------------------------------------------------- C9
\* C9: a call that has ended has either returned a payload or raised an
\* error of the taxonomy (the base kind GitHubAPIError or one of its four
\* specialisations), and a call that has not ended is at a request or in a
\* sleep of its at most MAX_RETRIES attempts, whatever the transport
\* answered, a Retry-After header that is no integer included.
C9_OutcomeInTaxonomy ==
    \A t \in Threads :
        /\ pc[t] = "done" =>
               \/ Returned(t)
               \/ Raised(t) /\ Exc(t).type \in Taxonomy
        /\ pc[t] \in {"request", "sleep"} =>
               /\ result[t] = None
               /\ Len(sent[t]) + Len(sleeps[t]) < 2 * MAX_RETRIES - 1

\* ---------------------------------------------------------------- C10
\* A credential is configured when self.token is a non-empty string.
Configured == token # None /\ The(token) # <<>>

\* C10: every request carries Accept: application/vnd.github+json and
\* X-GitHub-Api-Version: 2022-11-28; it carries an Authorization header,
\* equal to "Bearer " followed by the credential, if and only if a
\* credential is configured; all requests of one call carry the same headers.
C10_RequestHeaders ==
    \A t \in Threads :
        \A i \in 1..Len(sent[t]) :
            LET h == sent[t][i].headers
            IN  /\ {"Accept", "X-GitHub-Api-Version"} \subseteq DOMAIN h
                /\ h["Accept"] = <<"application/vnd.github+json">>
                /\ h["X-GitHub-Api-Version"] = <<"2022-11-28">>
                /\ "Authorization" \in DOMAIN h <=> Configured
                /\ Configured => h["Authorization"] = <<"Bearer ">> \o The(token)
                /\ h = sent[t][1].headers

\* The third request of a call of a client with a credential.
C10_Witness ==
    /\ Len(sent[MainThread]) = MAX_RETRIES
    /\ Configured
    /\ sent[MainThread][3].headers["Authorization"] = <<"Bearer ">> \o The(token)

\* ---------------------------------------------------------------- C11
\* C11: at construction an explicit token argument, the empty string
\* included, takes precedence over the GITHUB_TOKEN environment value; with
\* no explicit argument the environment value is used; with neither the
\* credential is None (and the client is built all the same).
C11_ExplicitTokenPrecedence ==
    /\ tokenArg # None => token = tokenArg
    /\ tokenArg = None => token = environ
    /\ (tokenArg = None /\ environ = None) => token = None

\* How far the statement of C11 holds: a non-empty explicit argument takes
\* precedence, and an empty or absent one gives way to the environment value.
TokenPrecedence_Truthy ==
    /\ TruthyOpt(tokenArg) => token = tokenArg
    /\ ~TruthyOpt(tokenArg) => token = environ
    /\ (tokenArg = None /\ environ = None) => token = None

\* ---------------------------------------------------------------- C12
\* C12: a call answered 200 on its first request makes that one request,
\* does not sleep and returns the body, whatever the previous call on the
\* client did; in particular a second call answered the same 200 as the
\* first returns the payload the first returned.
C12_Idempotence ==
    \A t \in Threads :
        (outcomes[t] # <<>> /\ HasStatus(outcomes[t][1], {200})) =>
            /\ pc[t] = "done"
            /\ attempt[t] = 0
            /\ Len(sent[t]) = 1
            /\ sleeps[t] = <<>>
            /\ result[t] = Some([kind |-> "return", payload |-> outcomes[t][1].body])
            /\ priorPayload[t] = Some(outcomes[t][1].body) =>
                   The(result[t]).payload = The(priorPayload[t])

\* The second of two calls answered the same 200, each by one request.
C12_Witness ==
    /\ pc[MainThread] = "done"
    /\ via[MainThread] = Direct
    /\ method[MainThread] = "GET"
    /\ prior[MainThread] = 1
    /\ Len(outcomes[MainThread]) = 1
    /\ HasStatus(outcomes[MainThread][1], {200})
    /\ priorPayload[MainThread] = Some(outcomes[MainThread][1].body)
    /\ Returned(MainThread)

\* ---------------------------------------------------------------- C13
\* The path the claim gives for a public method.
PublicPath(v) ==
    IF v.op = "get_repo_details"
    THEN <<"/repos/", v.owner, "/", v.repo>>
    ELSE <<"/repos/", v.owner, "/", v.repo, "/releases/latest">>
\* How an iteration that does not sleep ends the call.
EndOf(eff) ==
    IF eff.kind = "return"
    THEN [kind |-> "return", payload |-> eff.payload]
    ELSE [kind |-> "raise", exc |-> eff.exc]

\* C13: get_repo_details(owner, repo) and get_latest_release(owner, repo)
\* make one logical call with method GET and path /repos/{owner}/{repo},
\* resp. /repos/{owner}/{repo}/releases/latest: every request is a GET of
\* that path, and the sleeps and the outcome (payload returned or error
\* raised) are those of _make_request("GET", path) on the same answers.
C13_PublicMethodsForward ==
    \A t \in Threads :
        via[t].op \in {"get_repo_details", "get_latest_release"} =>
            LET path == PublicPath(via[t])
            IN  /\ method[t] = "GET"
                /\ endpoint[t] = path
                /\ Len(sent[t]) <= MAX_RETRIES
                /\ Len(sleeps[t]) <= Len(outcomes[t])
                /\ \A i \in 1..Len(sent[t]) :
                       /\ sent[t][i].method = "GET"
                       /\ sent[t][i].url = <<"https://api.github.com">> \o path
                /\ \A i \in 1..Len(outcomes[t]) :
                       LET eff == Iteration(i - 1, path, outcomes[t][i])
                       IN  IF i <= Len(sleeps[t])
                           THEN eff.kind = "sleep" /\ sleeps[t][i] = eff.secs
                           ELSE /\ pc[t] = "done"
                                /\ eff.kind # "sleep"
                                /\ result[t] = Some(EndOf(eff))

\* get_latest_release("python", "cpython") returned a payload on its second
\* request, after a sleep.
C13_Witness ==
    /\ pc[MainThread] = "done"
    /\ via[MainThread] = [op |-> "get_latest_release", owner |-> "python", repo |-> "cpython"]
    /\ Len(sent[MainThread]) = 2
    /\ Len(sleeps[MainThread]) = 1
    /\ Returned(MainThread)

\* ---------------------------------------------------------------- C14
\* C14: the raise of "Max retries exceeded" after the loop is never
\* reached: an iteration returns, raises, or sleeps at an attempt index
\* below MAX_RETRIES - 1, so that the loop always has a next index to
\* continue with, and no call ends with that error.
C14_FallbackUnreachable ==
    \A t \in Threads :
        /\ pc[t] = "sleep" => attempt[t] < MAX_RETRIES - 1
        /\ Raised(t) => Exc(t).message # <<"Max retries exceeded">>
        /\ (pc[t] = "done" /\ Len(outcomes[t]) = MAX_RETRIES) =>
               Len(sleeps[t]) = MAX_RETRIES - 1

\* A call that was retried twice and ended on its third request.
C14_Witness ==
    /\ pc[MainThread] = "done"
    /\ Len(outcomes[MainThread]) = MAX_RETRIES
    /\ IsRetryable(Last(outcomes[MainThread]))
    /\ Raised(MainThread)

\* ---------------------------------------------------------------- C15
Count(seq, x) == Cardinality({i \in 1..Len(seq) : seq[i] = x})

\* C15: the log of a call holds an info line for the start of each attempt
\* and one for a success, a warning line for every retry sleep and an error
\* line for a terminal failure; an error line is the last line of the log
\* and the call has then raised, every call that raised has logged it, and
\* a call that returned has logged no error.
C15_LogLines ==
    \A t \in Threads :
        /\ Count(log[t], "info") =
               (IF pc[t] = "request" THEN Len(sent[t]) + 1 ELSE Len(sent[t]))
               + (IF Returned(t) THEN 1 ELSE 0)
        /\ Count(log[t], "warning") = Len(sleeps[t])
        /\ Count(log[t], "error") = (IF Raised(t) THEN 1 ELSE 0)
        /\ \A i \in 1..Len(log[t]) :
               log[t][i] = "error" => (i = Len(log[t]) /\ Raised(t))
        /\ Returned(t) => Count(log[t], "error") = 0

\* How far the statement of C15 holds: one info line at the start of the
\* call (not of each attempt) and one for a success, a warning for every
\* sleep, and an error line, the last of the log, for every raise but that
\* of the ValueError of a Retry-After header that is no integer.
LogLines_PerCall ==
    \A t \in Threads :
        pc[t] # "idle" =>
            /\ log[t][1] = "info"
            /\ Count(log[t], "info") = 1 + (IF Returned(t) THEN 1 ELSE 0)
            /\ Count(log[t], "warning") = Len(sleeps[t])
            /\ Count(log[t], "error") =
                   (IF Raised(t) /\ Exc(t).type \in Taxonomy THEN 1 ELSE 0)
            /\ \A i \in 1..Len(log[t]) :
                   log[t][i] = "error" => (i = Len(log[t]) /\ Raised(t))

\* ---------------------------------------------------------------- C16
\* C16: with two calls running at once on one client, under every
\* interleaving, the client keeps the credential it was built with, each
\* call has its own attempt index (the number of requests it has issued
\* itself), and its sleeps and its outcome are those its own transport
\* answers determine, whatever the other call does.
C16_NoInterference ==
    /\ token = InitToken(tokenArg, environ)
    /\ \A t \in Threads :
        /\ pc[t] = "request" => attempt[t] = Len(sent[t])
        /\ pc[t] = "sleep" => attempt[t] = Len(sent[t]) - 1
        /\ Len(sent[t]) <= MAX_RETRIES
        /\ Len(sleeps[t]) <= Len(outcomes[t])
        /\ pc[t] # "idle" => headers[t] = GetHeaders(InitToken(tokenArg, environ))
        /\ \A i \in 1..Len(outcomes[t]) :
               LET eff == Iteration(i - 1, endpoint[t], outcomes[t][i])
               IN  IF i <= Len(sleeps[t])
                   THEN eff.kind = "sleep" /\ sleeps[t][i] = eff.secs
                   ELSE /\ pc[t] = "done"
                        /\ eff.kind # "sleep"
                        /\ result[t] = Some(EndOf(eff))

\* Both calls are in a sleep at once, at different attempt indices and for
\* different durations.
C16_Witness ==
    /\ pc[1] = "sleep" /\ pc[2] = "sleep"
    /\ attempt[1] = 1 /\ attempt[2] = 0
    /\ sleeps[1] = <<1, MaxRetryAfter>>
    /\ sleeps[2] = <<1>>
    /\ endpoint[1] # endpoint[2]

\* ---------------------------------------------------------------- C17
CarriesRetryAfter(o) == IsResponse(o) /\ HasRetryAfter(o)

RECURSIVE Sum(_)
Sum(seq) == IF seq = <<>> THEN 0 ELSE seq[1] + Sum(Tail(seq))

\* C18: sleeps and requests alternate: the i-th sleep follows the i-th
\* request, which met a retryable failure at an index below
\* MAX_RETRIES - 1, and another request follows it; a call that has ended
\* after n requests has slept n - 1 times, at most 2; and when no response
\* carried a Retry-After header the sleeps of a call add up to at most 3.
C18_SleepsAlternate ==
    \A t \in Threads :
        /\ Len(sleeps[t]) <= MAX_RETRIES - 1
        /\ Len(sleeps[t]) <= Len(outcomes[t])
        /\ Len(sent[t]) = Len(outcomes[t])
        /\ \A i \in 1..Len(sleeps[t]) :
               IsRetryable(outcomes[t][i]) /\ i - 1 < MAX_RETRIES - 1
        /\ pc[t] = "sleep" =>
               /\ Len(sleeps[t]) = Len(sent[t])
               /\ attempt[t] + 1 < MAX_RETRIES
        /\ pc[t] = "request" => Len(sleeps[t]) = Len(sent[t])
        /\ pc[t] = "done" => Len(sleeps[t]) = Len(sent[t]) - 1
        /\ (\A i \in 1..Len(outcomes[t]) : ~CarriesRetryAfter(outcomes[t][i])) =>
               Sum(sleeps[t]) <= 1 + 2

\* A call of three requests and two sleeps that add up to 3.
C18_Witness ==
    /\ pc[MainThread] = "done"
    /\ Len(sent[MainThread]) = 3
    /\ Len(sleeps[MainThread]) = 2
    /\ Sum(sleeps[MainThread]) = 3
    /\ Returned(MainThread)

====
